---- MODULE Spec2Model ----
(***************************************************************************)
(* A model of src/main.py: the batch PDF-to-text script.                   *)
(*                                                                         *)
(* Strings are sequences of tokens.  The whitespace characters "\n" and    *)
(* " " are tokens of their own; every other token ("a", "--- Page ", "1")  *)
(* is a run of characters that neither starts nor ends with whitespace     *)
(* trimming can reach, so str.strip() is computed token by token.          *)
(* The filesystem is the record fs; one run of main() is the sequence of   *)
(* steps main_scan, main_setup, main_check, process_pdfs_start, then per   *)
(* file ProcessNext, OpenDoc, ExtractPage*, ExtractReturn, WriteText,      *)
(* MoveOriginal, LogSaved, and ProcessReturn at the end.                   *)
(*                                                                         *)
(* Spec is one run of main(); SpecRerun is several runs in succession;     *)
(* SpecExtract is extract_text_from_pdf on one document, with every        *)
(* combination of what the PDF and OCR libraries can return for a page.    *)
(***************************************************************************)
EXTENDS Integers, Sequences, FiniteSets, TLC

\* ---------------------------------------------------------------- bounds
MaxFiles == 2
MaxPages == 2
MaxRuns  == 2
MaxClock == 2

Names  == 1..MaxFiles      \* the PDF <n>.pdf has stem <n>
Stamps == 1..MaxClock      \* the values of strftime("%Y%m%d_%H%M%S")

\* --------------------------------------------------------------- strings
NL == "\n"
SP == " "
Whitespace == {NL, SP}

None   == <<"<None>">>     \* Python's None, as returned by page.extract_text()
NoFile == <<"<no file>">>  \* the content of a path that does not exist

Truthy(s) == s # None /\ s # <<>>

RECURSIVE lstrip(_)
lstrip(s) == IF s # <<>> /\ Head(s) \in Whitespace THEN lstrip(Tail(s)) ELSE s

RECURSIVE rstrip(_)
rstrip(s) ==
  IF s # <<>> /\ s[Len(s)] \in Whitespace THEN rstrip(SubSeq(s, 1, Len(s) - 1)) ELSE s

strip(s) == rstrip(lstrip(s))

\* "\n".join(results)
RECURSIVE join(_)
join(results) ==
  IF results = <<>> THEN <<>>
  ELSE IF Len(results) = 1 THEN Head(results)
  ELSE Head(results) \o <<NL>> \o join(Tail(results))

\* ------------------------------------------------- extract_text_from_pdf
\* line 96: if text and text.strip()
HasDirectTextNoStrip(text) == Truthy(text)
HasDirectText(text) == Truthy(text) /\ Truthy(strip(text))

\* line 97: f"\n--- Page {page_num} ---\n{text}"
DirectBlock(page_num, text) ==
  <<NL, "--- Page ", ToString(page_num), " ---", NL>> \o text

\* lines 110-111: f"\n--- Page {page_num} (OCR) ---\n{ocr_text}"
OcrBlockPlainMarker(page_num, results) ==
  <<NL, "--- Page ", ToString(page_num), " ---", NL>> \o join(results)
OcrBlock(page_num, results) ==
  <<NL, "--- Page ", ToString(page_num), " (OCR) ---", NL>> \o join(results)

\* lines 118-120: except Exception: ... return ""
FailedDocTextKeepsPages(full_text) == strip(full_text)
FailedDocText(full_text) == <<>>

\* line 117: return full_text.strip()
ReturnedText(full_text) == strip(full_text)

\* What the libraries can hand back for one page.
Raise == <<"<raise>">>
DirectTexts == {None, <<>>, <<SP>>, <<"a">>, <<"a", SP>>}
OcrResults  == {<<>>, << <<"x">> >>, << <<"x">>, <<"y">> >>}
Pages ==
  [direct : DirectTexts \cup {Raise}, render : {"ok", "fault"},
   ocr : {"ok", "fault"}, results : OcrResults]
BatchPages ==
  [direct : {<<"a">>, <<>>, Raise}, render : {"ok"}, ocr : {"ok"},
   results : {<< <<"x">> >>}]

VARIABLES
  fs,          \* the filesystem: input/, output/ and output/<stamp>/...
  fs0,         \* fs as main() found it when the current run began
  clock,       \* the last stamp datetime.now() produced
  run,         \* number of runs of main() begun
  pc,          \* where the current run stands
  ts,          \* the stamp of the current run's directory (0: none)
  prevTs,      \* the stamp of the last run that completed a batch (0: none)
  created,     \* what the current run created: "input", "output", "stamp", "log"
  console,     \* what the current run wrote to the console
  pdf_files,   \* process_pdfs: list(input_dir.glob("*.pdf"))
  i,           \* process_pdfs: the loop index, 1-based
  text,        \* process_pdfs: the string extract_text_from_pdf returned
  count,       \* the value process_pdfs returned to main (0 before)
  page_num,    \* extract_text_from_pdf: pages iterated so far
  full_text,   \* extract_text_from_pdf: the accumulator
  pages,       \* what happened on each page of the current document
  stages,      \* per file, the stages this run has entered for it
  failed,      \* files whose extraction ended in the document-level except
  fault        \* the stage an uncaught fault or a termination hit ("": none)

vars ==
  <<fs, fs0, clock, run, pc, ts, prevTs, created, console, pdf_files, i, text,
    count, page_num, full_text, pages, stages, failed, fault>>

runVars == <<run, ts, prevTs, created, fs0, clock>>
docVars == <<page_num, full_text, pages>>
loopVars == <<pdf_files, i, text, count, stages, failed>>

\* --------------------------------------------------------------- logging
Line(level, msg, arg) == <<level, msg, ToString(arg)>>

\* logger.<level>(...): the file handler appends to output/<ts>/ocr_log.txt,
\* the stream handler writes the same line to the console (lines 58-71).
Logged(f, t, lines) == [f EXCEPT !.log[t] = @ \o lines]

Present(dir) == {n \in Names : dir[n] # 0}

NoDir == [n \in Names |-> 0]
NoTexts == [n \in Names |-> NoFile]

Init ==
  /\ fs = [inputDir  |-> FALSE,
           outputDir |-> FALSE,
           input     |-> NoDir,
           stamp     |-> [t \in Stamps |-> FALSE],
           original  |-> [t \in Stamps |-> NoDir],
           processed |-> [t \in Stamps |-> NoTexts],
           hasLog    |-> [t \in Stamps |-> FALSE],
           log       |-> [t \in Stamps |-> <<>>]]
  /\ fs0 = fs
  /\ clock = 1
  /\ run = 0
  /\ pc = "idle"
  /\ ts = 0
  /\ prevTs = 0
  /\ created = {}
  /\ console = <<>>
  /\ pdf_files = <<>>
  /\ i = 0
  /\ text = <<>>
  /\ count = 0
  /\ page_num = 0
  /\ full_text = <<>>
  /\ pages = <<>>
  /\ stages = [n \in Names |-> <<>>]
  /\ failed = {}
  /\ fault = ""

Returned == {"nofiles", "depmissing", "completed"}
\* main() is started when no run is under way, at most runs times in all.
CanStart(runs) == pc \in Returned \cup {"idle"} /\ run < runs

\* The user puts new PDFs into input/ before a run.
DropFiles(runs) ==
  /\ CanStart(runs)
  /\ \E S \in SUBSET Names \ {{}} :
       /\ \A n \in S : fs.input[n] = 0
       /\ fs' = [fs EXCEPT !.inputDir = TRUE,
                           !.input = [n \in Names |-> IF n \in S THEN run + 1 ELSE @[n]]]
  /\ UNCHANGED <<fs0, clock, run, pc, ts, prevTs, created, console, pdf_files, i,
                 text, count, page_num, full_text, pages, stages, failed, fault>>

\* ------------------------------------------------------------------ main
\* line 154: if not pdf_files
NothingToDoNever(found) == FALSE
NothingToDo(found) == found = {}

\* lines 149-156: setup_folders(), the glob, and the early return.
main_scan(runs) ==
  /\ CanStart(runs)
  /\ run' = run + 1
  /\ prevTs' = IF pc = "completed" THEN ts ELSE prevTs
  /\ fs0' = fs
  /\ fs' = [fs EXCEPT !.inputDir = TRUE, !.outputDir = TRUE]
  /\ created' = (IF fs.inputDir THEN {} ELSE {"input"})
                  \cup (IF fs.outputDir THEN {} ELSE {"output"})
  /\ IF NothingToDo(Present(fs.input))
       THEN /\ console' = <<Line("PRINT", "No PDF files found in /input folder.", 0)>>
            /\ pc' = "nofiles"
       ELSE /\ console' = <<>>
            /\ pc' = "found"
  /\ ts' = 0
  /\ pdf_files' = <<>> /\ i' = 0 /\ text' = <<>> /\ count' = 0
  /\ page_num' = 0 /\ full_text' = <<>> /\ pages' = <<>>
  /\ stages' = [n \in Names |-> <<>>] /\ failed' = {} /\ fault' = ""
  /\ UNCHANGED clock

\* lines 34-44: the stamp has a resolution of one second and mkdir is
\* called with exist_ok=True.
get_timestamp_folder(f, t) == [f EXCEPT !.stamp[t] = TRUE]

\* lines 47-73: logging.FileHandler opens ocr_log.txt in append mode, which
\* creates the file when it is absent and keeps its lines otherwise.
setup_logging(f, t) == [f EXCEPT !.hasLog[t] = TRUE]

\* lines 158-165.
main_setup ==
  /\ pc = "found"
  /\ \E t \in clock..MaxClock :
       LET lines == <<Line("INFO", "PDF OCR - Processing PDFs from /input folder", 0),
                      Line("INFO", "Input folder", 0),
                      Line("INFO", "Output folder", t)>>
       IN /\ clock' = t
          /\ ts' = t
          /\ fs' = Logged(setup_logging(get_timestamp_folder(fs, t), t), t, lines)
          /\ created' = created \cup (IF fs.stamp[t] THEN {} ELSE {"stamp"})
                                \cup (IF fs.hasLog[t] THEN {} ELSE {"log"})
          /\ console' = console \o lines
  /\ pc' = "checkdeps"
  /\ UNCHANGED <<fs0, run, prevTs>>
  /\ UNCHANGED <<loopVars, docVars, fault>>

\* lines 168-170: if not check_dependencies(logger): ... return
AfterCheckIgnored(importable) == "process"
AfterCheck(importable) == IF importable THEN "process" ELSE "depmissing"

\* lines 76-84 and 168-170: check_dependencies and the abort.
main_check ==
  /\ pc = "checkdeps"
  /\ \E importable \in BOOLEAN :
       LET lines == IF importable
                      THEN <<Line("INFO", "EasyOCR available", 0)>>
                      ELSE <<Line("ERROR", "EasyOCR not found. Install with: uv sync", 0),
                             Line("INFO", "Process aborted due to missing dependencies.", 0)>>
       IN /\ fs' = Logged(fs, ts, lines)
          /\ console' = console \o lines
          /\ pc' = AfterCheck(importable)
  /\ UNCHANGED <<runVars, loopVars, docVars, fault>>

\* ---------------------------------------------------------- process_pdfs
\* glob yields the files of input/ in an order the filesystem chooses.
Orders(S) ==
  {q \in [1..Cardinality(S) -> S] : \A a, b \in 1..Cardinality(S) : q[a] = q[b] => a = b}

\* lines 125-127.
process_pdfs_start ==
  /\ pc = "process"
  /\ \E q \in Orders(Present(fs.input)) : pdf_files' = q
  /\ LET lines == <<Line("INFO", "Found PDF file(s). Starting OCR...", Len(pdf_files'))>>
     IN /\ fs' = Logged(fs, ts, lines)
        /\ console' = console \o lines
  /\ i' = 1
  /\ pc' = "loop"
  /\ UNCHANGED <<runVars, text, count, stages, failed, docVars, fault>>

pdf_path == pdf_files[i]

\* lines 129-130: the loop takes the next file and logs it.
ProcessNext ==
  /\ pc = "loop"
  /\ i <= Len(pdf_files)
  /\ LET lines == <<Line("INFO", "Processing", pdf_path)>>
     IN /\ fs' = Logged(fs, ts, lines)
        /\ console' = console \o lines
  /\ stages' = [stages EXCEPT ![pdf_path] = Append(@, "Extracting")]
  /\ pc' = "open"
  /\ UNCHANGED <<runVars, pdf_files, i, text, count, failed, docVars, fault>>

\* lines 118-120: the document-level handler.
DocumentFails ==
  /\ LET lines == <<Line("ERROR", "Error processing", pdf_path)>>
     IN /\ fs' = Logged(fs, ts, lines)
        /\ console' = console \o lines
  /\ text' = FailedDocText(full_text)
  /\ failed' = failed \cup {pdf_path}
  /\ pc' = "write"

\* lines 89-92: full_text = "" and pdfplumber.open, which may raise.
OpenDoc ==
  /\ pc = "open"
  /\ \E opens \in BOOLEAN :
       IF opens
         THEN /\ full_text' = <<>> /\ page_num' = 0 /\ pages' = <<>>
              /\ pc' = "pages"
              /\ UNCHANGED <<fs, console, text, failed>>
         ELSE /\ DocumentFails
              /\ full_text' = <<>> /\ page_num' = 0 /\ pages' = <<>>
  /\ UNCHANGED <<runVars, pdf_files, i, count, stages, fault>>

\* lines 114-115: the page-level handler leaves the accumulator alone.
AfterPageFaultResets(ft) == <<>>
AfterPageFault(ft) == ft

CouldNotOcr(n) == Line("WARNING", "Could not OCR page", n)
NoTextFound(n) == Line("WARNING", "No text found on page", n)

\* lines 95-98: the page has text of its own.
DirectPath(ft, n, p) ==
  [full_text |-> ft \o DirectBlock(n, p.direct), renders |-> 0, ocrs |-> 0,
   warn |-> <<>>]

\* lines 101-115: render the page, run OCR on the image.
OcrPath(ft, n, p) ==
  IF p.render = "fault"
    THEN [full_text |-> AfterPageFault(ft), renders |-> 1, ocrs |-> 0,
          warn |-> <<CouldNotOcr(n)>>]
  ELSE IF p.ocr = "fault"
    THEN [full_text |-> AfterPageFault(ft), renders |-> 1, ocrs |-> 1,
          warn |-> <<CouldNotOcr(n)>>]
  ELSE IF p.results # <<>>
    THEN [full_text |-> ft \o OcrBlock(n, p.results), renders |-> 1, ocrs |-> 1,
          warn |-> <<>>]
  ELSE [full_text |-> ft, renders |-> 1, ocrs |-> 1,
        warn |-> <<NoTextFound(n)>>]

\* The loop body without the continue of line 98.
PageBodyNoContinue(ft, n, p) ==
  IF HasDirectText(p.direct)
    THEN OcrPath(DirectPath(ft, n, p).full_text, n, p)
    ELSE OcrPath(ft, n, p)

\* lines 95-115: the loop body for page n.
PageBody(ft, n, p) ==
  IF HasDirectText(p.direct) THEN DirectPath(ft, n, p) ELSE OcrPath(ft, n, p)

\* lines 93-115: one iteration of the page loop; the iteration itself, or
\* page.extract_text(), may raise into the document-level handler.
ExtractPage(P) ==
  /\ pc = "pages"
  /\ page_num < MaxPages
  /\ \E p \in P :
       IF p.direct = Raise
         THEN /\ DocumentFails
              /\ UNCHANGED <<page_num, full_text, pages>>
         ELSE LET r == PageBody(full_text, page_num + 1, p)
              IN /\ page_num' = page_num + 1
                 /\ full_text' = r.full_text
                 /\ pages' = Append(pages, [page |-> p, renders |-> r.renders,
                                            ocrs |-> r.ocrs, before |-> full_text])
                 /\ fs' = Logged(fs, ts, r.warn)
                 /\ console' = console \o r.warn
                 /\ UNCHANGED <<pc, text, failed>>
  /\ UNCHANGED <<runVars, pdf_files, i, count, stages, fault>>

\* line 117: the pages are exhausted.
ExtractReturn ==
  /\ pc = "pages"
  /\ text' = ReturnedText(full_text)
  /\ pc' = "write"
  /\ UNCHANGED <<fs, console, runVars, pdf_files, i, count, stages, failed, docVars, fault>>

\* lines 136-137: nothing catches a fault of write_text.
AfterWriteSwallowsFault(ok) == "move"
AfterWrite(ok) == IF ok THEN "move" ELSE "crashed"

\* lines 136-137: output_file.write_text(text, encoding="utf-8").
WriteText ==
  /\ pc = "write"
  /\ \E ok \in BOOLEAN :
       /\ fs' = IF ok THEN [fs EXCEPT !.processed[ts][pdf_path] = text] ELSE fs
       /\ pc' = AfterWrite(ok)
       /\ fault' = IF ok THEN fault ELSE "write"
  /\ stages' = [stages EXCEPT ![pdf_path] = Append(@, "Writing")]
  /\ UNCHANGED <<console, runVars, pdf_files, i, text, count, failed, docVars>>

\* line 140: shutil.move renames; when os.rename raises OSError it copies the
\* file and then unlinks the source.  The copy or the unlink may raise.
MoveOutcomes == {"moved", "failed", "copied, source not removed"}

\* The move with the source unlinked before the copy is known to be there.
shutil_move_unlinks_first(f, t, n, outcome) ==
  [f EXCEPT !.original[t][n] = IF outcome = "failed" THEN @ ELSE f.input[n],
            !.input[n] = IF outcome = "copied, source not removed" THEN @ ELSE 0]

shutil_move(f, t, n, outcome) ==
  [f EXCEPT !.original[t][n] = IF outcome = "failed" THEN @ ELSE f.input[n],
            !.input[n] = IF outcome = "moved" THEN 0 ELSE @]

MoveOriginal ==
  /\ pc = "move"
  /\ \E outcome \in MoveOutcomes :
       /\ fs' = shutil_move(fs, ts, pdf_path, outcome)
       /\ pc' = IF outcome = "moved" THEN "logged" ELSE "crashed"
       /\ fault' = IF outcome = "moved" THEN fault ELSE "move"
  /\ stages' = [stages EXCEPT ![pdf_path] = Append(@, "Moving")]
  /\ UNCHANGED <<console, runVars, pdf_files, i, text, count, failed, docVars>>

\* line 142, and the loop advances.
LogSaved ==
  /\ pc = "logged"
  /\ LET lines == <<Line("INFO", "Saved", pdf_path)>>
     IN /\ fs' = Logged(fs, ts, lines)
        /\ console' = console \o lines
  /\ stages' = [stages EXCEPT ![pdf_path] = Append(@, "Logged")]
  /\ i' = i + 1
  /\ pc' = "loop"
  /\ UNCHANGED <<runVars, pdf_files, text, count, failed, docVars, fault>>

\* lines 144 and 172-175: the loop is over, main logs the count.
ProcessReturn ==
  /\ pc = "loop"
  /\ i > Len(pdf_files)
  /\ count' = Len(pdf_files)
  /\ LET lines == <<Line("INFO", "Completed! PDF(s) processed.", count'),
                    Line("INFO", "Results saved to", ts)>>
     IN /\ fs' = Logged(fs, ts, lines)
        /\ console' = console \o lines
  /\ pc' = "completed"
  /\ UNCHANGED <<runVars, pdf_files, i, text, stages, failed, docVars, fault>>

\* The process is terminated from outside between two steps.
Running == {"found", "checkdeps", "process", "loop", "open", "pages", "write", "move", "logged"}

Terminate ==
  /\ pc \in Running
  /\ pc' = "killed"
  /\ fault' = "terminated"
  /\ UNCHANGED <<fs, console, runVars, loopVars, docVars>>

\* The steps of a run once it has scanned input/.
Run ==
  \/ main_setup
  \/ main_check
  \/ process_pdfs_start
  \/ ProcessNext
  \/ OpenDoc
  \/ ExtractPage(BatchPages)
  \/ ExtractReturn
  \/ WriteText
  \/ MoveOriginal
  \/ LogSaved
  \/ ProcessReturn
  \/ Terminate

\* One run of main() in a working directory that holds nothing but, perhaps,
\* input/ with its PDFs.
Next ==
  \/ DropFiles(1)
  \/ main_scan(1)
  \/ Run

Spec == Init /\ [][Next]_vars

\* Up to MaxRuns runs, one after the other, each on what the runs before it
\* left behind and what the user has put into input/ since.
NextRerun ==
  \/ DropFiles(MaxRuns)
  \/ main_scan(MaxRuns)
  \/ Run

SpecRerun == Init /\ [][NextRerun]_vars

\* ------------------------------------------ extract_text_from_pdf alone
\* The first run has found 1.pdf, set up its directory and its log, passed
\* the dependency check and logged "Processing": extract_text_from_pdf is
\* entered.  From here the pages are drawn from every combination in Pages.
LinesBeforeExtract ==
  <<Line("INFO", "PDF OCR - Processing PDFs from /input folder", 0),
    Line("INFO", "Input folder", 0),
    Line("INFO", "Output folder", 1),
    Line("INFO", "EasyOCR available", 0),
    Line("INFO", "Found PDF file(s). Starting OCR...", 1),
    Line("INFO", "Processing", 1)>>

InitExtract ==
  /\ fs0 = [inputDir  |-> TRUE,
            outputDir |-> FALSE,
            input     |-> [n \in Names |-> IF n = 1 THEN 1 ELSE 0],
            stamp     |-> [t \in Stamps |-> FALSE],
            original  |-> [t \in Stamps |-> NoDir],
            processed |-> [t \in Stamps |-> NoTexts],
            hasLog    |-> [t \in Stamps |-> FALSE],
            log       |-> [t \in Stamps |-> <<>>]]
  /\ fs = [fs0 EXCEPT !.outputDir = TRUE, !.stamp[1] = TRUE, !.hasLog[1] = TRUE,
                      !.log[1] = LinesBeforeExtract]
  /\ clock = 1
  /\ run = 1
  /\ pc = "open"
  /\ ts = 1
  /\ prevTs = 0
  /\ created = {"output", "stamp", "log"}
  /\ console = LinesBeforeExtract
  /\ pdf_files = <<1>>
  /\ i = 1
  /\ text = <<>>
  /\ count = 0
  /\ page_num = 0
  /\ full_text = <<>>
  /\ pages = <<>>
  /\ stages = [n \in Names |-> IF n = 1 THEN <<"Extracting">> ELSE <<>>]
  /\ failed = {}
  /\ fault = ""

NextExtract ==
  \/ OpenDoc
  \/ ExtractPage(Pages)
  \/ ExtractReturn

SpecExtract == InitExtract /\ [][NextExtract]_vars

\* The state SpecExtract starts in is a state of a batch run.
EntryNotReached ==
  ~ (pc = "open" /\ fs.log[1] = LinesBeforeExtract /\ created = {"output", "stamp", "log"}
       /\ pdf_files = <<1>> /\ run = 1 /\ fs0.inputDir /\ ~fs0.outputDir
       /\ console = LinesBeforeExtract /\ ts = 1 /\ clock = 1 /\ Present(fs.input) = {1})

\* ================================================================ claims
Blank(t) == t = None \/ \A j \in 1..Len(t) : t[j] \in Whitespace

PlainMarker(k) == <<NL, "--- Page ", ToString(k), " ---", NL>>
OcrMarker(k)   == <<NL, "--- Page ", ToString(k), " (OCR) ---", NL>>

\* The accumulator as page k left it.
After(k) == IF k < Len(pages) THEN pages[k + 1].before ELSE full_text

\* The block page k owes the output, from what the libraries returned for it.
ResolvedBlock(k, p) ==
  IF ~Blank(p.direct) THEN PlainMarker(k) \o p.direct
  ELSE IF p.render = "ok" /\ p.ocr = "ok" /\ p.results # <<>>
    THEN OcrMarker(k) \o join(p.results)
  ELSE <<>>

RECURSIVE Blocks(_, _)
Blocks(h, k) == IF k = 0 THEN <<>> ELSE Blocks(h, k - 1) \o ResolvedBlock(k, h[k].page)

Discovered == {pdf_files[k] : k \in 1..Len(pdf_files)}
Passed(n) == \E k \in 1..Len(pdf_files) : pdf_files[k] = n /\ k < i
StageOrder == <<"Extracting", "Writing", "Moving", "Logged">>
NoStages == [n \in Names |-> <<>>]

\* C1: a page whose direct text is non-empty after trimming is neither
\* rendered nor passed to the OCR engine, and what it adds to the accumulator
\* is the plain page marker followed by the direct text.
C1_DirectTextSkipsOcr ==
  \A k \in 1..Len(pages) :
    ~Blank(pages[k].page.direct) =>
      /\ pages[k].renders = 0
      /\ pages[k].ocrs = 0
      /\ After(k) = pages[k].before \o PlainMarker(k) \o pages[k].page.direct

\* C1 witness: a document has returned with a page that had direct text and
\* that the OCR engine would have read text from, had it been asked.
C1_Witness ==
  /\ pc = "write"
  /\ \E k \in 1..Len(pages) :
       /\ pages[k].page.direct = <<"a", SP>>
       /\ pages[k].page.render = "ok" /\ pages[k].page.ocr = "ok"
       /\ pages[k].page.results # <<>>

\* C2 as stated: every page without direct text has the OCR engine invoked
\* exactly once, also when rendering the page raises.
C2_Original ==
  \A k \in 1..Len(pages) : Blank(pages[k].page.direct) => pages[k].ocrs = 1

\* C2 amended: a page without direct text (None, "" or whitespace only) is
\* rendered once; the OCR engine is invoked exactly once when the rendering
\* succeeds and not at all when the rendering raises.
C2_OcrOnceWhenRendered ==
  \A k \in 1..Len(pages) :
    Blank(pages[k].page.direct) =>
      /\ pages[k].renders = 1
      /\ pages[k].ocrs = IF pages[k].page.render = "ok" THEN 1 ELSE 0

\* C2 witness: a whitespace-only page that was rendered and read by OCR, then
\* a page without text whose rendering raised.
C2_Witness ==
  /\ Len(pages) = 2
  /\ pages[1].page.direct = <<SP>> /\ pages[1].page.render = "ok" /\ pages[1].ocrs = 1
  /\ pages[2].page.direct = None /\ pages[2].page.render = "fault" /\ pages[2].ocrs = 0

\* C3: a document that cannot be opened, or whose page iteration raises,
\* yields the empty string whatever was accumulated; once the loop has moved
\* past it, its text file exists and is empty and its original is in the
\* originals directory; a batch that completes has taken every file through
\* all four stages and counts every file, failed ones included.
C3_FailedDocumentStillHandled ==
  /\ \A n \in failed :
       /\ (pc = "write" /\ pdf_path = n) => text = <<>>
       /\ Passed(n) =>
            /\ fs.processed[ts][n] = <<>>
            /\ fs.original[ts][n] = fs0.input[n]
            /\ fs.input[n] # fs0.input[n]
  /\ pc = "completed" =>
       /\ count = Len(pdf_files)
       /\ \A n \in Discovered : stages[n] = StageOrder

\* C3 witness: a batch of two completed; extraction of the first file failed
\* after a page had been accumulated, the second file yielded text.
C3_Witness ==
  /\ pc = "completed"
  /\ count = 2
  /\ pdf_files[1] \in failed
  /\ pdf_files[2] \notin failed
  /\ fs.processed[ts][pdf_files[1]] = <<>>
  /\ fs.processed[ts][pdf_files[2]] # <<>>

\* The current run logged that the OCR engine is missing.
DependencyMissing ==
  \E j \in 1..Len(console) :
    console[j] = Line("ERROR", "EasyOCR not found. Install with: uv sync", 0)

NothingProcessed ==
  /\ stages = NoStages
  /\ count = 0
  /\ \A n \in Present(fs0.input) : fs.input[n] = fs0.input[n]
  /\ fs.original = fs0.original
  /\ fs.processed = fs0.processed

NoPdfsFound == run >= 1 /\ Present(fs0.input) = {}

\* C5 as stated: with no PDF in the input location the run creates no
\* directory (no output directory, no timestamped directory), sets up no log
\* file, prints only the console message, and processes nothing.
C5_Original ==
  NoPdfsFound =>
    /\ created \cap {"output", "stamp", "log"} = {}
    /\ console = <<Line("PRINT", "No PDF files found in /input folder.", 0)>>
    /\ count = 0

\* C5 amended: with no PDF in the input location the run returns after
\* creating at most the input and the output directory (whichever was
\* absent); it creates no timestamped directory and no log file, changes
\* nothing below output/, prints only the console message, and processes
\* nothing.
C5_NoStampNoLog ==
  NoPdfsFound =>
    /\ pc = "nofiles"
    /\ created \subseteq {"input", "output"}
    /\ fs.inputDir /\ fs.outputDir
    /\ fs.stamp = fs0.stamp /\ fs.hasLog = fs0.hasLog /\ fs.log = fs0.log
    /\ fs.original = fs0.original /\ fs.processed = fs0.processed
    /\ console = <<Line("PRINT", "No PDF files found in /input folder.", 0)>>
    /\ count = 0 /\ stages = NoStages

\* C5 witness: the first run, in an empty working directory.
C5_Witness ==
  /\ pc = "nofiles"
  /\ created = {"input", "output"}
  /\ console # <<>>

\* C6 as stated: a run that follows a completed batch writes into a
\* timestamped directory other than that batch's, and leaves that batch's
\* originals, text files and log as they were.
C6_Original ==
  (prevTs # 0 /\ ts # 0) =>
    /\ ts # prevTs
    /\ fs.original[prevTs] = fs0.original[prevTs]
    /\ fs.processed[prevTs] = fs0.processed[prevTs]
    /\ fs.log[prevTs] = fs0.log[prevTs]

\* C7 as stated: the string returned for a document that opened and iterated
\* without fault is the concatenation, in page order, of the blocks of the
\* pages that resolved to text (the newline that leads the first marker
\* counted or not).
C7_Original ==
  (pc = "write" /\ pdf_path \notin failed) =>
    LET b == Blocks(pages, Len(pages))
    IN text = b \/ (b # <<>> /\ text = Tail(b))

\* C7 amended: the returned string is that concatenation with leading and
\* trailing whitespace trimmed: one block per page that resolved to text, in
\* page order, the marker matching the source used.
C7_TrimmedConcatenation ==
  (pc = "write" /\ pdf_path \notin failed) =>
    text = strip(Blocks(pages, Len(pages)))

\* C7 witness: a returned document whose first page was read by OCR in two
\* fragments and whose second page had direct text ending in a space.
C7_Witness ==
  /\ pc = "write"
  /\ Len(pages) = 2
  /\ pages[1].page.direct = <<>> /\ pages[1].ocrs = 1 /\ Len(pages[1].page.results) = 2
  /\ pages[1].page.ocr = "ok"
  /\ pages[2].page.direct = <<"a", SP>>
  /\ text # <<>>

FaultPage(p) == Blank(p.direct) /\ (p.render = "fault" \/ p.ocr = "fault")

\* C8: a step in which rendering or OCR of a page raises stays in the page
\* loop, leaves the accumulated text and the document's failure status
\* alone, and logs exactly one warning, which names the page.
C8_PageFaultIsLocal ==
  [][(Len(pages') = Len(pages) + 1 /\ FaultPage(pages'[Len(pages')].page)) =>
       /\ pc' = "pages"
       /\ page_num' = page_num + 1
       /\ full_text' = full_text
       /\ failed' = failed
       /\ fs'.log[ts] =
            fs.log[ts] \o <<Line("WARNING", "Could not OCR page", Len(pages'))>>]_vars

\* C8 witness: a document returned text although OCR raised on its first
\* page: the second page was processed and its text is the output.
C8_Witness ==
  /\ pc = "write"
  /\ Len(pages) = 2
  /\ FaultPage(pages[1].page) /\ pages[1].page.render = "ok"
  /\ ~Blank(pages[2].page.direct)
  /\ text # <<>>
  /\ pdf_path \notin failed

\* C9 as stated: whatever stage faults, the loop advances, so a run that
\* ends (by returning or by a fault) has attempted every discovered file.
C9_Original ==
  pc \in {"completed", "crashed"} => \A n \in Discovered : stages[n] # <<>>

\* C9 amended: each file enters the stages Extracting, Writing, Moving,
\* Logged in that order; a fault while extracting does not stop the batch; a
\* fault while writing the text file or moving the original is not caught
\* and halts the run: the files after it are never attempted, and what
\* earlier stages did (the text file written, the files before it) stays.
C9_FaultHaltsRun ==
  /\ \A n \in Names :
       Len(stages[n]) <= 4 /\ stages[n] = SubSeq(StageOrder, 1, Len(stages[n]))
  /\ \A n \in failed : Passed(n) => stages[n] = StageOrder
  /\ pc = "completed" => \A n \in Discovered : stages[n] = StageOrder
  /\ fault \in {"write", "move"} =>
       /\ pc = "crashed"
       /\ stages[pdf_path] = IF fault = "write" THEN <<"Extracting", "Writing">>
                             ELSE <<"Extracting", "Writing", "Moving">>
       /\ fault = "move" => fs.processed[ts][pdf_path] = text
       /\ \A k \in 1..Len(pdf_files) :
            /\ k > i => stages[pdf_files[k]] = <<>>
            /\ k < i => /\ stages[pdf_files[k]] = StageOrder
                        /\ fs.original[ts][pdf_files[k]] = fs0.input[pdf_files[k]]
                        /\ fs.processed[ts][pdf_files[k]] # NoFile

\* C9 witness: the move of the first of two files faulted; its text file is
\* there, the second file was never attempted.
C9_Witness ==
  /\ pc = "crashed"
  /\ fault = "move"
  /\ Len(pdf_files) = 2
  /\ i = 1
  /\ fs.processed[ts][pdf_files[1]] # NoFile
  /\ stages[pdf_files[2]] = <<>>

\* C10 as stated: every discovered PDF is in exactly one of input/ and the
\* originals directory, and one that is in the originals directory has its
\* text file.
C10_Original ==
  \A n \in Discovered :
    /\ (fs.input[n] = fs0.input[n]) # (fs.original[ts][n] = fs0.input[n])
    /\ fs.original[ts][n] = fs0.input[n] => fs.processed[ts][n] # NoFile

\* C10 amended: every discovered PDF is in input/ or in the originals
\* directory, never in neither; it is in both only when shutil.move copied
\* it and was cut short before removing the source, which halts the run;
\* one that is in the originals directory had its text file written first.
C10_TextBeforeMove ==
  \A n \in Discovered :
    /\ fs.input[n] = fs0.input[n] \/ fs.original[ts][n] = fs0.input[n]
    /\ (fs.input[n] = fs0.input[n] /\ fs.original[ts][n] = fs0.input[n]) =>
         (pc = "crashed" /\ fault = "move" /\ pdf_path = n)
    /\ fs.original[ts][n] = fs0.input[n] =>
         /\ Len(stages[n]) >= 3
         /\ fs.processed[ts][n] # NoFile

\* C10 witness: the run halted with a PDF both in input/ and in the
\* originals directory, its text file written.
C10_Witness ==
  /\ pc = "crashed"
  /\ fault = "move"
  /\ fs.input[pdf_path] = fs0.input[pdf_path]
  /\ fs.original[ts][pdf_path] = fs0.input[pdf_path]
  /\ fs.processed[ts][pdf_path] = text

====
